---- MODULE Spec2Model ----
(***************************************************************************)
(* toasterhea: promises with UI.  A model of the toast lifecycle           *)
(* coordinator: defer(), toaster() (set / dispose / watcher / hasActive),  *)
(* the adapter returned by create() / toastify() (pop / discard), the      *)
(* disposal hook (useDisposeEffect / useDisposableEffect) and the          *)
(* Container that renders the registry snapshot.                           *)
(*                                                                         *)
(* The repository holds two revisions of the library.  The variable        *)
(* `variant` selects which one a behaviour runs:                           *)
(*   "create"   - src/unnamed/part_000 (toaster().create, guarded defer,   *)
(*                hasActive, ToastCancelled)                               *)
(*   "toastify" - src/src/index.tsx (toastify(component, toaster), public  *)
(*                set / dispose with {immediate}, RejectionReason)         *)
(*                                                                         *)
(* Promise continuations run as microtasks in FIFO order: `queue` is the   *)
(* microtask queue, RunMicrotask runs its head.                            *)
(***************************************************************************)
EXTENDS Integers, Sequences, FiniteSets, TLC

\* ------------------------------------------------------------------ bounds
MaxPops == 2
MaxPopsOne == 3
MaxMounts == 1
MaxSets == 2
MaxRetries == 2

\* two adapters, wrapping components 1 and 2
Adapters == {1, 2}
\* keys handed to toaster.set / toaster.dispose directly by a caller
\* (toastify variant, where both are public); adapter keys are 1, 2, ...
UserKeys == {-1, -2}
Variants == {"create", "toastify"}

\* rejection reasons and resolve values
UpdateSignal == "Update"
HostCancelled == "Host"
Err == "Err"
Vals == {"v1", "v2"}

VARIABLES
    variant,            \* which revision of the library runs
    lastToastableKey,   \* module-level key counter
    deferral,           \* adapter -> index into defs, 0 = undefined
    key,                \* adapter -> key, 0 = undefined
    defs,               \* the Deferrals created by pop, in creation order
    pairs,              \* the DisposeDeferrals created by set, in creation order
    items,              \* the registry: key -> DisposableMetadata
    calls,              \* the pop invocations (async function activations)
    queue,              \* microtask queue
    containerMounted,   \* is a Container mounted
    epoch,              \* number of Container mounts so far
    units,              \* rendered units: key -> hook state
    directSets,         \* number of direct toaster.set calls so far
    emitted             \* update events emitted by the last step

vars == << variant, lastToastableKey, deferral, key, defs, pairs, items, calls,
           queue, containerMounted, epoch, units, directSets, emitted >>

\* ------------------------------------------------------------------ defer
\* A Deferral: the promise (state, value, the continuations waiting on it)
\* and, in the create variant, the settled flag.
NewDeferral == [settled |-> FALSE, state |-> "pending", value |-> "", waiters |-> << >>]

\* (mutant) the promise settles without the value it was given
PromiseSettle_DropValue(d, st, v) ==
    IF d.state = "pending"
    THEN [d EXCEPT !.state = st, !.value = "", !.waiters = << >>]
    ELSE d

\* the promise's own resolve / reject: only the first call has an effect
PromiseSettle(d, st, v) ==
    IF d.state = "pending"
    THEN [d EXCEPT !.state = st, !.value = v, !.waiters = << >>]
    ELSE d

\* (mutant) resolve / reject without the first-call guard
DeferSettle_Overwrite(var, d, st, v) ==
    [d EXCEPT !.state = st, !.value = v, !.waiters = << >>, !.settled = (var = "create")]

\* Deferral.resolve / Deferral.reject of the given variant
DeferSettle(var, d, st, v) ==
    IF var = "create"
    THEN IF ~d.settled
         THEN [PromiseSettle(d, st, v) EXCEPT !.settled = TRUE]
         ELSE d
    ELSE PromiseSettle(d, st, v)

\* the continuations a settle call on d moves to the microtask queue
Released(var, d) ==
    IF d.state = "pending" /\ (var = "create" => ~d.settled) THEN d.waiters ELSE << >>

\* `await d.promise` by continuation job j: wait, or queue at once if d settled
Awaited(d, j) == IF d.state = "pending" THEN [d EXCEPT !.waiters = Append(@, j)] ELSE d
AwaitJobs(d, j) == IF d.state = "pending" THEN << >> ELSE << j >>

Unsettled(d) == d.state = "pending"

Job(t, id, ep) == [t |-> t, id |-> id, ep |-> ep]

\* ------------------------------------------------------------------ toaster
\* The registry operations work on R = [pairs, items, queue, emitted].

\* the component an adapter wraps, and the component of a direct set call
Component(a) == a
DirectComponents == {1, 2, 3}

\* how a component uses the disposal hook: without a callback ("auto"),
\* with a callback that receives finish ("fn"), or not at all ("none")
HookMode(c) == CASE c = 1 -> "auto" [] c = 2 -> "fn" [] OTHER -> "none"

Remove(f, k) == [x \in DOMAIN f \ {k} |-> f[x]]

\* (mutant) set always takes the insert branch
RegSet_Recreate(R, k, comp, d) ==
    LET p == Len(R.pairs) + 1
        pr == [key |-> k,
               disposeBegin |-> Awaited(NewDeferral, Job("reaction", p, 0)),
               disposeFinish |-> Awaited(NewDeferral, Job("reaction", p, 0)),
               remaining |-> 2]
    IN  [R EXCEPT !.pairs = Append(@, pr),
                  !.items = (k :> [component |-> comp, def |-> d, pair |-> p]) @@ @,
                  !.emitted = @ + 1]

\* set(key, metadata): merge into a present entry, or insert with fresh
\* DisposeDeferrals and start the watcher; emit update either way
RegSet(R, k, comp, d) ==
    IF k \in DOMAIN R.items
    THEN [R EXCEPT !.items = [@ EXCEPT ![k] = [@ EXCEPT !.component = comp, !.def = d]],
                   !.emitted = @ + 1]
    ELSE LET p == Len(R.pairs) + 1
             \* Promise.allSettled subscribes to both promises
             pr == [key |-> k,
                    disposeBegin |-> Awaited(NewDeferral, Job("reaction", p, 0)),
                    disposeFinish |-> Awaited(NewDeferral, Job("reaction", p, 0)),
                    remaining |-> 2]
         IN  [R EXCEPT !.pairs = Append(@, pr),
                       !.items = (k :> [component |-> comp, def |-> d, pair |-> p]) @@ @,
                       !.emitted = @ + 1]

\* deferrals.<which>.resolve() / reject() on pair p
SettlePair(var, R, p, which, st) ==
    IF which = "disposeBegin"
    THEN [R EXCEPT !.pairs = [@ EXCEPT ![p] = [@ EXCEPT !.disposeBegin =
                                   DeferSettle(var, @, st, "")]],
                   !.queue = @ \o Released(var, R.pairs[p].disposeBegin)]
    ELSE [R EXCEPT !.pairs = [@ EXCEPT ![p] = [@ EXCEPT !.disposeFinish =
                                   DeferSettle(var, @, st, "")]],
                   !.queue = @ \o Released(var, R.pairs[p].disposeFinish)]

\* (mutant) dispose emits an update event
RegDisposeBegin_Emit(var, R, k) ==
    [(IF k \in DOMAIN R.items
      THEN SettlePair(var, R, R.items[k].pair, "disposeBegin", "fulfilled")
      ELSE R) EXCEPT !.emitted = @ + 1]

\* dispose(key): items.get(key)?.deferrals.disposeBegin.resolve()
\* (key 0 is undefined: no entry)
RegDisposeBegin(var, R, k) ==
    IF k \in DOMAIN R.items
    THEN SettlePair(var, R, R.items[k].pair, "disposeBegin", "fulfilled")
    ELSE R

\* (mutant) the immediate option is ignored
RegDisposeFinish_Ignored(var, R, k) == R

\* the {immediate} half of dispose (toastify variant)
RegDisposeFinish(var, R, k) ==
    IF k \in DOMAIN R.items
    THEN SettlePair(var, R, R.items[k].pair, "disposeFinish", "fulfilled")
    ELSE R

RegDispose(var, R, k, immediate) ==
    IF immediate /\ var = "toastify"
    THEN RegDisposeFinish(var, RegDisposeBegin(var, R, k), k)
    ELSE RegDisposeBegin(var, R, k)

\* (mutant) the join resolves with the first element (a race)
RegReaction_First(R, p) ==
    LET n == R.pairs[p].remaining - 1
    IN  [R EXCEPT !.pairs = [@ EXCEPT ![p] = [@ EXCEPT !.remaining = n]],
                  !.queue = IF n = 1 THEN Append(@, Job("watcher", p, 0)) ELSE @]

\* one element of Promise.allSettled settles; the last one resolves the join
\* and queues the watcher's continuation
RegReaction(R, p) ==
    LET n == R.pairs[p].remaining - 1
    IN  [R EXCEPT !.pairs = [@ EXCEPT ![p] = [@ EXCEPT !.remaining = n]],
                  !.queue = IF n = 0 THEN Append(@, Job("watcher", p, 0)) ELSE @]

\* (mutant) the watcher deletes the entry without emitting
RegWatcher_Silent(R, p) ==
    [R EXCEPT !.items = IF R.pairs[p].key \in DOMAIN @ THEN Remove(@, R.pairs[p].key) ELSE @]

\* the watcher after the join: items.delete(key); emit update
RegWatcher(R, p) ==
    [R EXCEPT !.items = IF R.pairs[p].key \in DOMAIN @ THEN Remove(@, R.pairs[p].key) ELSE @,
              !.emitted = @ + 1]

\* (mutant) an entry counts as active until disposeFinish settles
HasActiveIn_Finish(its, prs, c) ==
    \E k \in DOMAIN its :
        /\ (c # 0 => its[k].component = c)
        /\ ~prs[its[k].pair].disposeFinish.settled

\* hasActive(component): component 0 stands for no argument
HasActiveIn(its, prs, c) ==
    \E k \in DOMAIN its :
        /\ (c # 0 => its[k].component = c)
        /\ ~prs[its[k].pair].disposeBegin.settled

hasActive(c) == HasActiveIn(items, pairs, c)

\* the registry part of the current state, with the step's event count reset
Reg == [pairs |-> pairs, items |-> items, queue |-> queue, emitted |-> 0]

\* ------------------------------------------------------------------ adapter
Min(a, b) == IF a < b THEN a ELSE b

\* a pop invocation: the Deferral it created and the one it awaits, the slot
\* (key and DisposeDeferrals) it published into, and its promise's outcome
NewCall(a, d, k, p) ==
    [adapter |-> a, created |-> d, awaiting |-> d, slot |-> k, pair |-> p,
     state |-> "pending", value |-> "", retries |-> 0]

\* (mutant) the previous Deferral is left alone
RejectCurrent_Skip(var, ds, d, reason) == ds

\* deferral?.reject(reason) on the adapter's current Deferral
RejectCurrent(var, ds, d, reason) ==
    IF d = 0 THEN ds ELSE [ds EXCEPT ![d] = DeferSettle(var, @, "rejected", reason)]

ReleasedCurrent(var, ds, d) == IF d = 0 THEN << >> ELSE Released(var, ds[d])

\* pop(props), up to its first await
PopBody(a) ==
    /\ LET d0 == deferral[a]
           defs1 == RejectCurrent(variant, defs, d0, UpdateSignal)
           d == Len(defs) + 1
           c == Len(calls) + 1
           k == IF key[a] = 0 THEN lastToastableKey + 1 ELSE key[a]
           R == RegSet([Reg EXCEPT !.queue = @ \o ReleasedCurrent(variant, defs, d0)],
                       k, Component(a), d)
       IN  /\ defs' = Append(defs1, Awaited(NewDeferral, Job("pop", c, 0)))
           /\ deferral' = [deferral EXCEPT ![a] = d]
           /\ lastToastableKey' = IF key[a] = 0 THEN lastToastableKey + 1 ELSE lastToastableKey
           /\ key' = [key EXCEPT ![a] = k]
           /\ calls' = Append(calls, NewCall(a, d, k, R.items[k].pair))
           /\ pairs' = R.pairs /\ items' = R.items /\ queue' = R.queue
           /\ emitted' = R.emitted
    /\ UNCHANGED << variant, containerMounted, epoch, units, directSets >>

Pop(a) == Len(calls) < MaxPops /\ PopBody(a)

\* discard()
Discard(a) ==
    /\ defs' = RejectCurrent(variant, defs, deferral[a], HostCancelled)
    /\ queue' = queue \o ReleasedCurrent(variant, defs, deferral[a])
    /\ emitted' = 0
    /\ UNCHANGED << variant, lastToastableKey, deferral, key, pairs, items, calls,
                    containerMounted, epoch, units, directSets >>

\* (mutant) pop leaves without beginning disposal
PopFinally_NoDispose(var, R, k) == R

\* the finally block of pop: dispose(key); key = undefined
PopFinally(var, R, k) == RegDispose(var, R, k, FALSE)

\* (mutant) finally leaves the cached key in place
KeyAfterFinally_Kept(ks, a) == ks

\* the last statement of the finally block: key = undefined
KeyAfterFinally(ks, a) == [ks EXCEPT ![a] = 0]

\* (mutant) the catch clause rethrows everything
IsUpdate_Never(e) == FALSE

\* (mutant) the catch clause swallows everything
IsUpdate_Always(e) == TRUE

\* does the catch clause of the retry loop swallow the rejection
IsUpdate(e) == e = UpdateSignal

\* the continuation of `await deferral.promise` in pop call c (queue head)
PopContinue(c) ==
    LET a == calls[c].adapter
        d == defs[calls[c].awaiting]
        rest == [Reg EXCEPT !.queue = Tail(queue)]
    IN  IF d.state = "rejected" /\ IsUpdate(d.value)
        THEN \* caught: loop and await the adapter's current Deferral
             LET n == deferral[a]
                 j == Job("pop", c, 0)
             IN  /\ calls' = [calls EXCEPT ![c] = [@ EXCEPT !.awaiting = n,
                                     !.retries = Min(@ + 1, MaxRetries)]]
                 /\ defs' = [defs EXCEPT ![n] = Awaited(@, j)]
                 /\ queue' = Tail(queue) \o AwaitJobs(defs[n], j)
                 /\ emitted' = 0
                 /\ UNCHANGED << key, pairs, items >>
        ELSE \* return the value / rethrow, through finally
             LET R == PopFinally(variant, rest, key[a])
             IN  /\ calls' = [calls EXCEPT ![c] = [@ EXCEPT !.state = d.state,
                                                             !.value = d.value]]
                 /\ key' = KeyAfterFinally(key, a)
                 /\ pairs' = R.pairs /\ items' = R.items /\ queue' = R.queue
                 /\ emitted' = R.emitted
                 /\ UNCHANGED defs

\* ------------------------------------------------------------------ host
\* The Container renders one unit per registry entry; a unit that uses the
\* disposal hook subscribes to its pair's disposeBegin.

\* cleanup of the hook's first effect: the toastify variant rejects both
\* disposal deferrals, the create variant only clears `mounted`
HookCleanup(var, R, p, mode) ==
    IF var = "toastify" /\ mode # "none"
    THEN SettlePair(var, SettlePair(var, R, p, "disposeBegin", "rejected"),
                    p, "disposeFinish", "rejected")
    ELSE R

\* the hook's first effect: await deferrals.disposeBegin.promise
HookEffect(R, p, mode, ep) ==
    IF mode = "none"
    THEN R
    ELSE [R EXCEPT !.pairs = [@ EXCEPT ![p] = [@ EXCEPT !.disposeBegin =
                                   Awaited(@, Job("hook", p, ep))]],
                   !.queue = @ \o AwaitJobs(R.pairs[p].disposeBegin, Job("hook", p, ep))]

NoEvents == [Reg EXCEPT !.emitted = 0]

MountContainer ==
    /\ ~containerMounted
    /\ epoch < MaxMounts
    /\ containerMounted' = TRUE
    /\ epoch' = epoch + 1
    /\ emitted' = 0
    /\ UNCHANGED << variant, lastToastableKey, deferral, key, defs, pairs, items,
                    calls, queue, units, directSets >>

\* the Container renders (or re-renders) the entry of key k
RenderUnit(k) ==
    /\ containerMounted
    /\ k \in DOMAIN items
    /\ LET it == items[k]
           mode == HookMode(it.component)
           old == k \in DOMAIN units
           samePair == old /\ units[k].pair = it.pair
           u == [pair |-> it.pair, def |-> it.def, component |-> it.component,
                 isDisposing |-> IF old THEN units[k].isDisposing ELSE FALSE,
                 ranFor |-> IF old THEN units[k].ranFor ELSE 0]
           R0 == IF old /\ ~samePair
                 THEN HookCleanup(variant, NoEvents, units[k].pair, mode)
                 ELSE NoEvents
           R == IF samePair THEN R0 ELSE HookEffect(R0, it.pair, mode, epoch)
           stale == IF old THEN units[k].pair # it.pair \/ units[k].def # it.def ELSE TRUE
       IN  /\ stale
           /\ units' = (k :> u) @@ units
           /\ pairs' = R.pairs /\ queue' = R.queue
    /\ emitted' = 0
    /\ UNCHANGED << variant, lastToastableKey, deferral, key, defs, items, calls,
                    containerMounted, epoch, directSets >>

\* the Container drops the unit of a key that left the registry
RemoveUnit(k) ==
    /\ k \in DOMAIN units
    /\ k \notin DOMAIN items
    /\ LET R == HookCleanup(variant, NoEvents, units[k].pair, HookMode(units[k].component))
       IN  pairs' = R.pairs /\ queue' = R.queue
    /\ units' = Remove(units, k)
    /\ emitted' = 0
    /\ UNCHANGED << variant, lastToastableKey, deferral, key, defs, items, calls,
                    containerMounted, epoch, directSets >>

RECURSIVE CleanupAll(_, _, _, _)
CleanupAll(var, R, us, ks) ==
    IF ks = {}
    THEN R
    ELSE LET k == CHOOSE x \in ks : \A y \in ks : x <= y
         IN  CleanupAll(var, HookCleanup(var, R, us[k].pair, HookMode(us[k].component)),
                        us, ks \ {k})

\* the Container unmounts: every unit's effect cleanup runs
UnmountContainer ==
    /\ containerMounted
    /\ containerMounted' = FALSE
    /\ LET R == CleanupAll(variant, NoEvents, units, DOMAIN units)
       IN  pairs' = R.pairs /\ queue' = R.queue
    /\ units' = << >>
    /\ emitted' = 0
    /\ UNCHANGED << variant, lastToastableKey, deferral, key, defs, items, calls,
                    epoch, directSets >>

\* (mutant) the hook never reacts to disposeBegin
HookContinue_Never(p, ep) ==
    /\ units' = units
    /\ queue' = Tail(queue)

\* the hook's continuation after disposeBegin settled (queue head):
\* if (mounted) setIsDisposing(true); a rejection is ignored
HookContinue(p, ep) ==
    LET live == { k \in DOMAIN units : units[k].pair = p }
    IN  /\ units' = IF pairs[p].disposeBegin.state = "fulfilled"
                       /\ containerMounted /\ epoch = ep
                    THEN [k \in DOMAIN units |->
                            IF k \in live THEN [units[k] EXCEPT !.isDisposing = TRUE]
                            ELSE units[k]]
                    ELSE units
        /\ queue' = Tail(queue)

\* the hook's second effect: callback() once isDisposing is set; without a
\* callback finish() is called at once, with one the callback receives finish
HookCallback(k) ==
    /\ k \in DOMAIN units
    /\ units[k].isDisposing
    /\ units[k].ranFor # units[k].pair
    /\ HookMode(units[k].component) # "none"
    /\ LET R == IF HookMode(units[k].component) = "auto"
                THEN SettlePair(variant, NoEvents, units[k].pair, "disposeFinish", "fulfilled")
                ELSE NoEvents
       IN  pairs' = R.pairs /\ queue' = R.queue
    /\ units' = [units EXCEPT ![k] = [@ EXCEPT !.ranFor = units[k].pair]]
    /\ emitted' = 0
    /\ UNCHANGED << variant, lastToastableKey, deferral, key, defs, items, calls,
                    containerMounted, epoch, directSets >>

\* the unit's callback calls the finish it was given
UnitFinish(k) ==
    /\ k \in DOMAIN units
    /\ HookMode(units[k].component) = "fn"
    /\ units[k].ranFor = units[k].pair
    /\ LET R == SettlePair(variant, NoEvents, units[k].pair, "disposeFinish", "fulfilled")
       IN  pairs' = R.pairs /\ queue' = R.queue
    /\ emitted' = 0
    /\ UNCHANGED << variant, lastToastableKey, deferral, key, defs, items, calls,
                    containerMounted, epoch, units, directSets >>

\* the reasons a unit can pass to its reject prop: RejectionReason is exported
\* by the toastify variant, UpdateSignal is private to the create variant
UnitReasons(var) == IF var = "toastify" THEN {Err, UpdateSignal} ELSE {Err}

\* a rendered unit calls props.resolve(v) / props.reject(r)
UnitSettle(k, st, v) ==
    /\ k \in DOMAIN units
    /\ units[k].def # 0
    /\ defs' = [defs EXCEPT ![units[k].def] = DeferSettle(variant, @, st, v)]
    /\ queue' = queue \o Released(variant, defs[units[k].def])
    /\ emitted' = 0
    /\ UNCHANGED << variant, lastToastableKey, deferral, key, pairs, items, calls,
                    containerMounted, epoch, units, directSets >>

UnitResolve(k) ==
    \E v \in Vals : UnitSettle(k, "fulfilled", v)

UnitReject(k) ==
    \E r \in UnitReasons(variant) : UnitSettle(k, "rejected", r)

\* ------------------------------------------------------------------ microtasks
RunPop ==
    /\ queue # << >>
    /\ Head(queue).t = "pop"
    /\ PopContinue(Head(queue).id)
    /\ UNCHANGED << variant, lastToastableKey, deferral, containerMounted, epoch,
                    units, directSets >>

RunReaction ==
    /\ queue # << >>
    /\ Head(queue).t = "reaction"
    /\ LET R == RegReaction([Reg EXCEPT !.queue = Tail(queue)], Head(queue).id)
       IN  pairs' = R.pairs /\ queue' = R.queue /\ emitted' = R.emitted
    /\ UNCHANGED << variant, lastToastableKey, deferral, key, defs, items, calls,
                    containerMounted, epoch, units, directSets >>

RunWatcher ==
    /\ queue # << >>
    /\ Head(queue).t = "watcher"
    /\ LET R == RegWatcher([Reg EXCEPT !.queue = Tail(queue)], Head(queue).id)
       IN  items' = R.items /\ queue' = R.queue /\ emitted' = R.emitted
    /\ UNCHANGED << variant, lastToastableKey, deferral, key, defs, pairs, calls,
                    containerMounted, epoch, units, directSets >>

RunHook ==
    /\ queue # << >>
    /\ Head(queue).t = "hook"
    /\ HookContinue(Head(queue).id, Head(queue).ep)
    /\ emitted' = 0
    /\ UNCHANGED << variant, lastToastableKey, deferral, key, defs, pairs, items,
                    calls, containerMounted, epoch, directSets >>

RunMicrotask == RunPop \/ RunReaction \/ RunWatcher \/ RunHook

\* ------------------------------------------------------------------ direct registry calls
\* toaster.set(key, metadata) and toaster.dispose(key, options) are public in
\* the toastify variant
SetDirect(k, c) ==
    /\ variant = "toastify"
    /\ directSets < MaxSets
    /\ directSets' = directSets + 1
    /\ LET R == RegSet(Reg, k, c, 0)
       IN  pairs' = R.pairs /\ items' = R.items /\ queue' = R.queue /\ emitted' = R.emitted
    /\ UNCHANGED << variant, lastToastableKey, deferral, key, defs, calls,
                    containerMounted, epoch, units >>

DisposeDirect(k, immediate) ==
    /\ variant = "toastify"
    /\ LET R == RegDispose(variant, Reg, k, immediate)
       IN  pairs' = R.pairs /\ items' = R.items /\ queue' = R.queue /\ emitted' = R.emitted
    /\ UNCHANGED << variant, lastToastableKey, deferral, key, defs, calls,
                    containerMounted, epoch, units, directSets >>

\* ------------------------------------------------------------------ specification
Keys == UserKeys \cup (1..MaxPopsOne)

Init ==
    /\ variant \in Variants
    /\ lastToastableKey = 0
    /\ deferral = [a \in Adapters |-> 0]
    /\ key = [a \in Adapters |-> 0]
    /\ defs = << >>
    /\ pairs = << >>
    /\ items = << >>
    /\ calls = << >>
    /\ queue = << >>
    /\ containerMounted = FALSE
    /\ epoch = 0
    /\ units = << >>
    /\ directSets = 0
    /\ emitted = 0

AdapterStep == \E a \in Adapters : Pop(a) \/ Discard(a)

UnitStep == \E k \in Keys : UnitResolve(k) \/ UnitReject(k)

HookStep == \E k \in Keys : HookCallback(k) \/ UnitFinish(k)

HostStep == MountContainer \/ UnmountContainer \/ (\E k \in Keys : RenderUnit(k) \/ RemoveUnit(k))

DirectStep ==
    \E k \in UserKeys : (\E c \in DirectComponents : SetDirect(k, c))
                        \/ (\E i \in BOOLEAN : DisposeDirect(k, i))

\* the adapters of either variant under a Container
Next == AdapterStep \/ UnitStep \/ HookStep \/ HostStep \/ RunMicrotask

Spec == Init /\ [][Next]_vars

\* one adapter, popped more often
PopOne == Len(calls) < MaxPopsOne /\ PopBody(1)

NextOne ==
    PopOne \/ Discard(1) \/ UnitStep \/ (\E k \in Keys : HookCallback(k)) \/ HostStep
    \/ RunMicrotask

SpecOne == Init /\ [][NextOne]_vars

\* the registry of the toastify variant driven through its public set / dispose
InitRegistry == Init /\ variant = "toastify"

NextRegistry == DirectStep \/ HookStep \/ HostStep \/ RunReaction \/ RunWatcher \/ RunHook

SpecRegistry == InitRegistry /\ [][NextRegistry]_vars

\* the microtask queue always drains
SpecFair == Spec /\ WF_vars(RunMicrotask)

\* ------------------------------------------------------------------ claims
Owner(i) == calls[i].adapter
Rejected(d, r) == d.state = "rejected" /\ d.value = r
CallRejected(c, r) == calls[c].state = "rejected" /\ calls[c].value = r
CallIds == 1..MaxPops

\* C1: on every adapter at most one Deferral it created is unsettled, and
\* that one is the adapter's current Deferral: pop rejects the previous one
\* before it creates the next.
C1_AtMostOneUnsettled ==
    \A a \in Adapters :
        /\ Cardinality({ i \in DOMAIN defs : Owner(i) = a /\ Unsettled(defs[i]) }) <= 1
        /\ \A i \in DOMAIN defs : Owner(i) = a /\ Unsettled(defs[i]) => i = deferral[a]

\* a second pop on an adapter: the first Deferral rejected with the Update
\* signal, the second one unsettled
C1_Witness ==
    \E i, j \in DOMAIN defs :
        /\ i < j /\ Owner(i) = Owner(j)
        /\ Rejected(defs[i], UpdateSignal)
        /\ Unsettled(defs[j])

\* C2: the promise of a pop call whose Deferral a later pop superseded
\* rejects with the Update signal.
C2_FirstRejectsWithUpdate ==
    \A c \in DOMAIN calls :
        (/\ \E j \in DOMAIN calls : j > c /\ Owner(j) = Owner(c)
         /\ Rejected(defs[calls[c].created], UpdateSignal)
         /\ calls[c].state # "pending")
        => CallRejected(c, UpdateSignal)

AwaitsDiscarded(c) ==
    IF c \in DOMAIN calls
    THEN calls[c].state = "pending" /\ Rejected(defs[calls[c].awaiting], HostCancelled)
    ELSE FALSE

HasRejected(c, r) == IF c \in DOMAIN calls THEN CallRejected(c, r) ELSE FALSE

\* C4: once discard has rejected the Deferral a pending pop call awaits, that
\* call's promise rejects with the Host-Cancelled error (never with Update).
C4_DiscardRejectsWithHost ==
    /\ [][\A a \in Adapters :
            (Discard(a) /\ deferral[a] # 0 /\ Unsettled(defs[IF deferral[a] = 0 THEN 1 ELSE deferral[a]]))
            => Rejected(defs'[deferral[a]], HostCancelled)]_vars
    /\ \A c \in CallIds :
            [](AwaitsDiscarded(c) => <>(HasRejected(c, HostCancelled)))

\* a pop promise rejected with the Host-Cancelled error
C4_Witness ==
    \E c \in DOMAIN calls :
        /\ CallRejected(c, HostCancelled)
        /\ Rejected(defs[calls[c].created], HostCancelled)

PairIds == 1..MaxPops
Settled(d) == ~Unsettled(d)
Present(p) ==
    IF p \in DOMAIN pairs
    THEN \E k \in DOMAIN items : items[k].pair = p
    ELSE FALSE
BothSettled(p) ==
    IF p \in DOMAIN pairs
    THEN Settled(pairs[p].disposeBegin) /\ Settled(pairs[p].disposeFinish)
    ELSE FALSE

\* disposal of the slot call c published into has begun
SlotDisposalBegun(c) ==
    IF c \in DOMAIN calls THEN Settled(pairs[calls[c].pair].disposeBegin) ELSE FALSE

\* C5: after discard has rejected the Deferral of a pending pop, disposal of
\* that pop's slot begins; and an entry whose disposeBegin and disposeFinish
\* have both settled is removed from the registry.
C5_DiscardThenDisposed ==
    /\ \A c \in CallIds : [](AwaitsDiscarded(c) => <>SlotDisposalBegun(c))
    /\ \A p \in PairIds : []((Present(p) /\ BothSettled(p)) => <>(~Present(p)))

\* one pop, discarded, its slot disposed of: the registry is empty again
C5_Witness ==
    /\ Len(calls) = 1 /\ Len(pairs) = 1
    /\ CallRejected(1, HostCancelled)
    /\ BothSettled(1)
    /\ items = << >>

\* C6: unmounting the Container rejects the Deferral of every pending pop
\* whose unit it renders.
C6_UnmountRejectsPending ==
    [][UnmountContainer =>
         \A c \in DOMAIN calls :
            (calls[c].state = "pending" /\ calls[c].slot \in DOMAIN units)
            => Settled(defs'[calls[c].awaiting])]_vars

\* C7: tearing the host down settles both disposal deferrals of every unit
\* that uses the disposal hook.
C7_TeardownSettlesDisposal ==
    [][UnmountContainer =>
         \A k \in DOMAIN units :
            HookMode(units[k].component) # "none"
            => /\ Settled(pairs'[units[k].pair].disposeBegin)
               /\ Settled(pairs'[units[k].pair].disposeFinish)]_vars

\* C8: every DisposeDeferrals pair with an unsettled half still has its entry
\* in the registry: an entry is removed only after both have settled.
C8_RemovedOnlyAfterBoth ==
    \A p \in DOMAIN pairs :
        (Unsettled(pairs[p].disposeBegin) \/ Unsettled(pairs[p].disposeFinish))
        => (pairs[p].key \in DOMAIN items /\ items[pairs[p].key].pair = p)

\* dispose has begun and every microtask has run; disposeFinish is unsettled
\* and the entry is still there
C8_Witness ==
    \E p \in DOMAIN pairs :
        /\ pairs[p].disposeBegin.state = "fulfilled"
        /\ Unsettled(pairs[p].disposeFinish)
        /\ pairs[p].remaining = 1
        /\ queue = << >>
        /\ Present(p)

\* the microtask queue of the registry specification always drains
SpecRegistryFair == SpecRegistry /\ WF_vars(RunReaction \/ RunWatcher \/ RunHook)

PairIdsRegistry == 1..MaxSets

\* C9: dispose(key, {immediate: true}) on a present key settles both disposal
\* deferrals in that call, and an entry whose two deferrals are settled is
\* removed by the microtasks alone.
C9_ImmediateRemoves ==
    /\ [][\A k \in UserKeys :
            (DisposeDirect(k, TRUE) /\ k \in DOMAIN items)
            => /\ Settled(pairs'[items[k].pair].disposeBegin)
               /\ Settled(pairs'[items[k].pair].disposeFinish)]_vars
    /\ \A p \in PairIdsRegistry : []((Present(p) /\ BothSettled(p)) => <>(~Present(p)))

\* set, dispose immediate, microtasks: the entry is gone and no Container was
\* ever mounted
C9_Witness ==
    /\ epoch = 0
    /\ Len(pairs) = 1
    /\ pairs[1].disposeBegin.state = "fulfilled"
    /\ pairs[1].disposeFinish.state = "fulfilled"
    /\ items = << >>
    /\ emitted = 1

\* what hasActive is specified to return
ActiveEntry(c) ==
    \E k \in DOMAIN items :
        /\ (c # 0 => items[k].component = c)
        /\ Unsettled(pairs[items[k].pair].disposeBegin)

\* pop call at the queue head is about to leave through finally
Finishing ==
    /\ queue # << >>
    /\ Head(queue).t = "pop"
    /\ LET d == defs[calls[Head(queue).id].awaiting]
       IN  ~(d.state = "rejected" /\ IsUpdate(d.value))

FinishingAdapter == IF Finishing THEN calls[Head(queue).id].adapter ELSE 1

\* C10 (create variant): hasActive(c) is true exactly when some entry (of
\* component c, if given) has its disposeBegin unsettled; it is true right
\* after a pop that sets a fresh key, and false right after dispose of the
\* only slot, whose entry is still present.
C10_HasActive ==
    /\ [](variant = "create" => \A c \in 0..3 : hasActive(c) <=> ActiveEntry(c))
    /\ [][\A a \in Adapters :
            (variant = "create" /\ key[a] = 0 /\ Pop(a))
            => (hasActive(0)' /\ hasActive(Component(a))')]_vars
    /\ [][(variant = "create" /\ Finishing /\ RunPop
             /\ DOMAIN items = {key[FinishingAdapter]})
            => (~hasActive(0)' /\ DOMAIN items' = DOMAIN items)]_vars

\* the only slot's disposal has begun: hasActive is false, the entry present
C10_Witness ==
    /\ variant = "create"
    /\ Cardinality(DOMAIN items) = 1
    /\ ~hasActive(0)
    /\ \E k \in DOMAIN items : /\ pairs[items[k].pair].disposeBegin.settled
                               /\ Unsettled(pairs[items[k].pair].disposeFinish)

\* a settled Deferral d keeps its outcome and its flag in e, its next value
Frozen(d, e) ==
    Settled(d) => (e.state = d.state /\ e.value = d.value /\ e.settled = d.settled)

\* C11: a Deferral settles once.  In the create variant the settled flag is
\* true exactly when the promise has an outcome (both are set by the first
\* resolve / reject call, in one step); in both variants no step changes the
\* outcome or the flag of a Deferral that has settled, whatever resolve or
\* reject calls the step makes on it.
C11_SettlesOnce ==
    /\ [](variant = "create" =>
            /\ \A i \in DOMAIN defs : defs[i].settled <=> Settled(defs[i])
            /\ \A p \in DOMAIN pairs :
                    /\ pairs[p].disposeBegin.settled <=> Settled(pairs[p].disposeBegin)
                    /\ pairs[p].disposeFinish.settled <=> Settled(pairs[p].disposeFinish))
    /\ [][/\ \A i \in DOMAIN defs : Frozen(defs[i], defs'[i])
          /\ \A p \in DOMAIN pairs :
                /\ Frozen(pairs[p].disposeBegin, pairs'[p].disposeBegin)
                /\ Frozen(pairs[p].disposeFinish, pairs'[p].disposeFinish)]_vars

\* a unit resolved its Deferral, and a later pop on the same adapter called
\* reject(Update) on it: the Deferral is still fulfilled
C11_Witness ==
    \E i, j \in DOMAIN defs :
        /\ i < j /\ Owner(i) = Owner(j)
        /\ defs[i].state = "fulfilled"
        /\ defs[i].value \in Vals

\* the adapter has no unsettled Deferral: none yet, or the current one settled
NoneOutstanding(a) == IF deferral[a] = 0 THEN TRUE ELSE Settled(defs[deferral[a]])

\* C12: discard() on an adapter with no unsettled Deferral changes nothing:
\* no Deferral, registry entry, disposal deferral, pop call or queued
\* continuation changes, and the step emits no update event.
C12_DiscardNoOp ==
    [][\A a \in Adapters :
          (Discard(a) /\ NoneOutstanding(a))
          => /\ UNCHANGED << defs, pairs, items, calls, queue, deferral, key,
                             lastToastableKey, units >>
             /\ emitted' = 0]_vars

\* a state discard() is called in with nothing outstanding while a pop call
\* is still pending: the unit has resolved, the continuation has not run
C12_Witness ==
    \E a \in Adapters :
        /\ deferral[a] # 0
        /\ defs[deferral[a]].state = "fulfilled"
        /\ calls[deferral[a]].state = "pending"
        /\ queue # << >>
        /\ emitted = 0

\* the key pop publishes under: the cached one, or the next fresh one
PopKey(a) == IF key[a] = 0 THEN lastToastableKey + 1 ELSE key[a]

\* the jobs a step appended to the microtask queue are pop continuations only
OnlyPopJobsAdded ==
    \A i \in DOMAIN queue' : i > Len(queue) => queue'[i].t = "pop"

\* set(k, [component c, props of Deferral d]) took the merge branch
Merged(k, c, d) ==
    /\ pairs' = pairs
    /\ DOMAIN items' = DOMAIN items
    /\ items'[k] = [component |-> c, def |-> d, pair |-> items[k].pair]
    /\ \A x \in DOMAIN items \ {k} : items'[x] = items[x]

\* C13: set on a present key replaces the entry's component and props and
\* keeps its DisposeDeferrals: the pair's identity, the settlement state of
\* both halves and the watcher's subscriptions are unchanged, no new pair is
\* created and no watcher continuation is queued; and as long as an entry
\* stays in the registry its pair stays the same.
C13_MergeKeepsPair ==
    /\ [][\A a \in Adapters :
            (PopBody(a) /\ PopKey(a) \in DOMAIN items)
            => (Merged(PopKey(a), Component(a), Len(defs) + 1) /\ OnlyPopJobsAdded)]_vars
    /\ [][\A k \in UserKeys : \A c \in DirectComponents :
            (SetDirect(k, c) /\ k \in DOMAIN items)
            => (Merged(k, c, 0) /\ queue' = queue)]_vars
    /\ [][\A k \in DOMAIN items :
            k \in DOMAIN items' => items'[k].pair = items[k].pair]_vars

\* a second pop has just replaced the props of the entry the first pop
\* inserted: same pair, new Deferral, one update event
C13_Witness ==
    \E c \in DOMAIN calls :
        /\ calls[c].slot \in DOMAIN items
        /\ items[calls[c].slot].pair = calls[c].pair
        /\ items[calls[c].slot].def > calls[c].created
        /\ emitted = 1

\* C14: a step that calls set (a pop, or a direct toaster.set) emits exactly
\* one update event, whether the key was absent (insert) or present (merge);
\* the step in which the watcher runs deletes its entry and emits exactly one
\* update event; and every step that changes the entry map emits one.
C14_UpdatePerChange ==
    /\ [][\A a \in Adapters : PopBody(a) => (emitted' = 1 /\ items' # items)]_vars
    /\ [][\A k \in UserKeys : \A c \in DirectComponents :
            SetDirect(k, c) => emitted' = 1]_vars
    /\ [][RunWatcher => /\ emitted' = 1
                        /\ DOMAIN items' = DOMAIN items \ {pairs[Head(queue).id].key}
                        /\ DOMAIN items' # DOMAIN items]_vars
    /\ [][items' # items => emitted' = 1]_vars

\* the watcher has just deleted the last entry: the step emitted one update
\* event and the registry is empty
C14_Witness ==
    /\ emitted = 1
    /\ items = << >>
    /\ pairs # << >>
    /\ \A p \in DOMAIN pairs : pairs[p].remaining = 0

\* dispose(k) finds no entry (k = 0 is the undefined key), or one whose
\* disposeBegin has settled
AbsentOrBegun(k) ==
    IF k \in DOMAIN items THEN Settled(pairs[items[k].pair].disposeBegin) ELSE TRUE

\* C15: dispose(key) on an absent key or on a slot whose disposeBegin has
\* settled changes no entry and no deferral, queues no continuation and emits
\* no update event - both for a direct toaster.dispose(key) and for the
\* dispose(key) in pop's finally block (which, besides, settles the pop
\* promise and clears the cached key).
C15_DisposeNoOp ==
    /\ [][\A k \in UserKeys :
            (DisposeDirect(k, FALSE) /\ AbsentOrBegun(k))
            => (UNCHANGED << pairs, items, queue, defs, calls, units >> /\ emitted' = 0)]_vars
    /\ [][(Finishing /\ RunPop /\ AbsentOrBegun(key[FinishingAdapter]))
            => /\ UNCHANGED << pairs, items, defs, units >>
               /\ queue' = Tail(queue)
               /\ emitted' = 0]_vars

\* two pop calls that published into one slot have both left through
\* finally: the second dispose found the cached key cleared by the first
C15_Witness ==
    \E c1, c2 \in DOMAIN calls :
        /\ c1 < c2
        /\ calls[c1].slot = calls[c2].slot
        /\ calls[c1].state # "pending"
        /\ calls[c2].state # "pending"

\* call c's promise has settled and its slot is still draining: the entry is
\* present and disposeFinish is unsettled
Draining(c) ==
    /\ calls[c].state # "pending"
    /\ calls[c].slot \in DOMAIN items
    /\ items[calls[c].slot].pair = calls[c].pair
    /\ Unsettled(pairs[calls[c].pair].disposeFinish)

\* call c's promise has settled and disposal of its slot has completed
Drained(c) ==
    /\ calls[c].state # "pending"
    /\ Settled(pairs[calls[c].pair].disposeBegin)
    /\ Settled(pairs[calls[c].pair].disposeFinish)

BegunOrRemoved(c) ==
    \/ Settled(pairs[calls[c].pair].disposeBegin)
    \/ ~Present(calls[c].pair)

\* C17: in the step in which a pop promise settles - fulfilled, rejected with
\* the unit's reason or rejected by discard - disposal of the slot that call
\* published into has begun or its entry is already removed, and the
\* adapter's cached key is cleared; and the slot of every settled pop call
\* stays that way.
C17_SettledMeansDisposed ==
    /\ [][\A c \in DOMAIN calls :
            (calls[c].state = "pending" /\ calls'[c].state # "pending")
            => /\ BegunOrRemoved(c)'
               /\ key'[calls[c].adapter] = 0
               /\ calls'[c].state \in {"fulfilled", "rejected"}]_vars
    /\ [](\A c \in DOMAIN calls : calls[c].state # "pending" => BegunOrRemoved(c))

\* one pop promise fulfilled with the unit's value and one rejected, the
\* slots of both disposing, no cached key left
C17_Witness ==
    \E c1, c2 \in DOMAIN calls :
        /\ calls[c1].state = "fulfilled" /\ calls[c1].value \in Vals
        /\ calls[c2].state = "rejected" /\ calls[c2].value \in {Err, HostCancelled}
        /\ Settled(pairs[calls[c1].pair].disposeBegin)
        /\ Settled(pairs[calls[c2].pair].disposeBegin)
        /\ \A a \in Adapters : key[a] = 0

\* the step is the unit of key k calling resolve(v) / reject(v) on a Deferral
\* that is still unsettled
UnitSettlesFirst(k, st, v) ==
    /\ UnitSettle(k, st, v)
    /\ Unsettled(defs[units[k].def])

\* pop call c is pending and its own Deferral has an outcome that is not the
\* Update signal
OwnOutcomePending(c) ==
    IF c \in DOMAIN calls
    THEN /\ calls[c].state = "pending"
         /\ Settled(defs[calls[c].created])
         /\ ~Rejected(defs[calls[c].created], UpdateSignal)
    ELSE FALSE

\* pop call c has settled with the outcome of its own Deferral
OwnOutcome(c) ==
    IF c \in DOMAIN calls
    THEN /\ calls[c].state = defs[calls[c].created].state
         /\ calls[c].value = defs[calls[c].created].value
         /\ calls[c].state # "pending"
    ELSE FALSE

\* C18: the value a unit passes to resolve, or the reason it passes to
\* reject, becomes the outcome of the Deferral it settles; and a pop call
\* whose Deferral was not rejected with the Update signal settles with
\* exactly its Deferral's outcome, and no other.
C18_PassThrough ==
    /\ [][\A k \in Keys :
            /\ \A v \in Vals :
                UnitSettlesFirst(k, "fulfilled", v)
                => (defs'[units[k].def].state = "fulfilled" /\ defs'[units[k].def].value = v)
            /\ \A r \in UnitReasons(variant) :
                UnitSettlesFirst(k, "rejected", r)
                => Rejected(defs'[units[k].def], r)]_vars
    /\ [](\A c \in DOMAIN calls :
            (calls[c].state # "pending" /\ ~Rejected(defs[calls[c].created], UpdateSignal))
            => OwnOutcome(c))
    /\ \A c \in CallIds : [](OwnOutcomePending(c) => <>OwnOutcome(c))

\* one pop promise fulfilled with the value its unit resolved with, another
\* rejected with the reason its unit rejected with
C18_Witness ==
    \E c1, c2 \in DOMAIN calls :
        /\ calls[c1].state = "fulfilled" /\ calls[c1].value = "v2"
        /\ defs[calls[c1].created].value = "v2"
        /\ CallRejected(c2, Err)
        /\ Rejected(defs[calls[c2].created], Err)

\* C19: no pop call re-awaits more than once: the retry loop catches the
\* Update signal at most once before the call returns or throws.
C19_AtMostOneReAwait ==
    \A c \in DOMAIN calls : calls[c].retries <= 1

\* the microtask queue drains and React runs the effects of rendered units
SpecHookFair ==
    Spec /\ WF_vars(RunMicrotask) /\ WF_vars(\E k \in Keys : HookCallback(k))

\* a mounted unit renders pair p and uses the disposal hook in mode m
HookMounted(p, m) ==
    /\ containerMounted
    /\ \E k \in DOMAIN units : units[k].pair = p /\ HookMode(units[k].component) = m

BeginResolved(p) ==
    IF p \in DOMAIN pairs THEN pairs[p].disposeBegin.state = "fulfilled" ELSE FALSE

FinishResolved(p) ==
    IF p \in DOMAIN pairs THEN pairs[p].disposeFinish.state = "fulfilled" ELSE FALSE

\* C20: for a unit that uses the disposal hook without a callback and stays
\* mounted, once disposeBegin of its slot is resolved disposeFinish gets
\* resolved and the entry gets removed, by the hook and the microtasks alone.
\* For a unit that passes a callback, disposeFinish settles only in a step in
\* which the unit calls the finish it was handed, as long as the unit is
\* mounted.
C20_HookFinishes ==
    /\ \A p \in PairIds :
          [](HookMounted(p, "auto") /\ BeginResolved(p)
               => <>(FinishResolved(p) \/ ~HookMounted(p, "auto")))
    /\ \A p \in PairIds :
          [](HookMounted(p, "auto") /\ BeginResolved(p)
               => <>(~Present(p) \/ ~HookMounted(p, "auto")))
    /\ [][\A k \in DOMAIN units :
            (/\ HookMode(units[k].component) = "fn"
             /\ Unsettled(pairs[units[k].pair].disposeFinish)
             /\ Settled(pairs'[units[k].pair].disposeFinish))
            => (UnitFinish(k) \/ k \notin DOMAIN units')]_vars

\* under a mounted Container: the entry of a unit without a callback has been
\* removed after the hook resolved disposeFinish, while a unit with a
\* callback that has been handed finish still holds disposeFinish unsettled
C20_Witness ==
    /\ containerMounted
    /\ \E c \in DOMAIN calls :
          /\ HookMode(Component(calls[c].adapter)) = "auto"
          /\ BeginResolved(calls[c].pair) /\ FinishResolved(calls[c].pair)
          /\ ~Present(calls[c].pair)
    /\ \E k \in DOMAIN units :
          /\ HookMode(units[k].component) = "fn"
          /\ units[k].ranFor = units[k].pair
          /\ BeginResolved(units[k].pair)
          /\ Unsettled(pairs[units[k].pair].disposeFinish)

\* the Container has not been unmounted so far
NeverUnmounted == epoch = 0 \/ (epoch = 1 /\ containerMounted)

\* the slot the adapter's current Deferral was published into is present,
\* with the pair it was published with and disposeBegin unsettled
CurrentSlotLive(a) ==
    LET c == calls[deferral[a]]
    IN  /\ c.slot \in DOMAIN items
        /\ items[c.slot].pair = c.pair
        /\ Unsettled(pairs[c.pair].disposeBegin)

\* C21: as long as only pop, discard, the units and the pop continuations
\* act (the Container is not torn down), an adapter whose current Deferral is
\* unsettled has that Deferral's slot in the registry with disposeBegin
\* unsettled: no finishing pop begins disposal of a slot that holds a newer
\* pending pop.
C21_PendingSlotLive ==
    NeverUnmounted =>
        \A a \in Adapters :
            (deferral[a] # 0 /\ ~NoneOutstanding(a)) => CurrentSlotLive(a)

\* C22 (create variant): every step that changes the value of hasActive(),
\* with or without a component filter, emits an update event.
C22_HasActiveChangeEmits ==
    [][variant = "create" =>
         \A c \in 0..3 : (hasActive(c)' # hasActive(c)) => emitted' >= 1]_vars

\* Deferral d of call c's adapter, created by c or by a later pop, has
\* settled with an outcome that is not the Update signal.  While c is pending
\* such a Deferral was the adapter's current one when it settled.
SettledSince(c, d) ==
    /\ d >= calls[c].created
    /\ Owner(d) = calls[c].adapter
    /\ Settled(defs[d])
    /\ ~Rejected(defs[d], UpdateSignal)

\* such Deferrals settle in creation order; the first one is the first
\* non-Update outcome the adapter's current Deferral took while c was pending
FirstSettledSince(c, d) ==
    /\ SettledSince(c, d)
    /\ \A e \in DOMAIN defs : SettledSince(c, e) => d <= e

\* C23: a pop call that is pending when its adapter's current Deferral
\* settles with a non-Update outcome settles with that outcome, whichever
\* call created the Deferral: in the step in which a call settles, its
\* outcome is that of the first such Deferral.
C23_SameOutcome ==
    [][\A c \in DOMAIN calls :
          (calls[c].state = "pending" /\ calls'[c].state # "pending")
          => \A d \in DOMAIN defs :
                FirstSettledSince(c, d)
                => (calls'[c].state = defs[d].state /\ calls'[c].value = defs[d].value)]_vars

====
